---- MODULE Spec2Model ----
(***************************************************************************)
(* A model of the datastore package of Kirizii/KIP3-lab5: the entry codec  *)
(* (entry.go), the segment files, the hash index, recovery at Open, the    *)
(* single writer goroutine and the Put / Get / Close operations (db.go).   *)
(*                                                                         *)
(* Bytes are modelled by their counts.  A segment file is a sequence of    *)
(* chunks; a chunk is one encoded record: its key, the identity of its     *)
(* value (every Put writes a fresh value, numbered in issue order), the    *)
(* value's length, the number of bytes of the record that are on disk      *)
(* (present = size for a whole record, less for a record torn by a crash)  *)
(* and whether its value or checksum bytes were altered on disk.           *)
(* SHA-1 is modelled as collision free: a record verifies exactly when all *)
(* of its bytes were read and none of its value/checksum bytes changed.    *)
(***************************************************************************)
EXTENDS Integers, Sequences, FiniteSets, TLC

(***************************************************************************)
(* Bounds of the model.                                                    *)
(***************************************************************************)
\* Put calls issued in one behaviour.
MaxPuts == 2
\* Open calls after the first one (reopens of the directory).
MaxOpens == 1
\* Capacity of writeCh.  The program uses 100 (db.go:58); the model uses a
\* capacity below the number of clients so that a full queue happens.
QueueCap == 1
\* Faults injected by the environment (SpecFault only).
MaxFaults == 1

Clients == {"c1", "c2"}
Keys == {"k1", "k2"}
\* Value lengths a Put may carry: a short value and one whose record is
\* larger than the bufio.Reader buffer.
ValLens == {2, 4100}
\* Segment limits OpenWithLimit is called with.
Limits == {80}
\* Bytes of a torn record left on disk by a crash in the middle of a write.
TornLens == {1, 3, 4, 35}
\* Put calls of the session whose directory is replayed (SpecReplay): enough
\* for a segment id of two digits.
ReplayPuts == 10
\* The segment limit of that session: below the size of two records.
ReplayLimits == {40}
\* Put calls of the session that is closed while they arrive (SpecStop).
StopPuts == 2
\* Put calls of the session in which the steps under db.mu are told apart
\* (SpecLock).
LockPuts == 2
\* Put calls of the session whose file operations may fail (SpecIO), and
\* the file operations that do fail in it.
IOPuts == 3
MaxIOFaults == 1
\* Bytes a failing Write has put into the file when it returns its error.
PartialLens == {0, 5}
\* Value lengths of the Puts of that session, and its segment limit: below
\* the size of two records, so that the second Put rotates.
IOValLens == {2}
IOLimits == {40}
\* Longest key and longest value the codec tests encode.
MaxStrLen == 2
\* Bytes the keys and values of the codec tests are made of.
ByteVals == {0, 1, 255}
\* Bits of a byte the codec tests flip.
Bits == {0, 7}
\* Longest stream of records a reader is put over.
MaxRecords == 3
\* Value lengths of the records of a stream: a short one, one whose record
\* nearly fills the bufio.Reader buffer, and one whose record exceeds it.
StreamValLens == {2, 4000, 4100}

(***************************************************************************)
(* Program constants.                                                      *)
(***************************************************************************)
\* bufio.NewReader's buffer (bufio's default size).
BufSize == 4096
\* The 4-byte size prefix DecodeFromReader peeks.
SizePrefix == 4
\* Size, key length and value length fields: 3 * 4 bytes.
HeaderSize == 12
\* sha1.Sum's digest.
HashSize == 20

Min(a, b) == IF a < b THEN a ELSE b

(***************************************************************************)
(* entry.go                                                                *)
(***************************************************************************)
KeyLen(k) == 2

\* len(e.Encode()): kl + vl + 12 + len(hash).
EncodedSize(k, vlen) == KeyLen(k) + vlen + HeaderSize + HashSize

\* The chunk e.Encode() produces, written whole.
Encode(k, val, vlen) ==
    [key |-> k, val |-> val, vlen |-> vlen,
     present |-> EncodedSize(k, vlen), bad |-> FALSE]

ChunkSize(ch) == EncodedSize(ch.key, ch.vlen)

RECURSIVE FileSize(_)
FileSize(file) ==
    IF file = <<>> THEN 0
    ELSE file[Len(file)].present + FileSize(SubSeq(file, 1, Len(file) - 1))

\* Offset at which chunk i of the file starts.
ChunkStart(file, i) == FileSize(SubSeq(file, 1, i - 1))

\* The chunk that starts at byte offset off, 0 if none does.
ChunkIndexAt(file, off) ==
    IF \E i \in 1..Len(file) : ChunkStart(file, i) = off
    THEN CHOOSE i \in 1..Len(file) : ChunkStart(file, i) = off
    ELSE 0

\* entry.Decode on a buffer of the record's declared size of which the first
\* n bytes were read (the rest are the zero bytes make() left): the checksum
\* verifies only for a whole, unaltered record read in full.  The error is
\* fmt.Errorf("hash mismatch ..."), which wraps nothing.
Decode(ch, n) ==
    IF ch.present = ChunkSize(ch) /\ n = ChunkSize(ch) /\ ~ch.bad
    THEN "nil"
    ELSE "hash mismatch"

\* entry.DecodeFromReader on a bufio.Reader over the file whose read position
\* is lpos and whose buffer holds the bytes [lpos, bend).
\*   Peek(4) refills the buffer (one read of up to BufSize bytes in all) only
\*   when it holds fewer than 4 bytes, and returns io.EOF when fewer than 4
\*   bytes remain in the file, none or some.
\*   Read(buf) copies what the buffer holds, at most len(buf), and does not
\*   read the file again.
DecodeFromReader(file, lpos, bend) ==
    LET size1 == FileSize(file)
        bend1 == IF bend - lpos < SizePrefix
                 THEN Min(size1, lpos + BufSize) ELSE bend
        i     == ChunkIndexAt(file, lpos)
    IN  IF bend1 - lpos < SizePrefix
        THEN [n |-> 0, err |-> "EOF", key |-> "", val |-> 0, bend |-> bend1]
        ELSE IF i = 0 \/ file[i].present < SizePrefix
        THEN \* the size prefix is not a record's: nothing verifies
             [n |-> bend1 - lpos, err |-> "hash mismatch", key |-> "",
              val |-> 0, bend |-> bend1]
        ELSE LET ch == file[i]
                 n  == Min(ChunkSize(ch), bend1 - lpos)
             IN  [n |-> n, err |-> Decode(ch, n),
                  key |-> ch.key, val |-> ch.val, bend |-> bend1]

(***************************************************************************)
(* entry.go byte for byte: strings and buffers are sequences of 0..255     *)
(***************************************************************************)
\* binary.LittleEndian.PutUint32(res, uint32(n)).
LE32(n) ==
    <<n % 256, (n \div 256) % 256, (n \div 65536) % 256,
      (n \div 16777216) % 256>>

\* binary.LittleEndian.Uint32 of the first four bytes of b.
Uint32(b) == b[1] + 256 * b[2] + 65536 * b[3] + 16777216 * b[4]

\* sha1.Sum: a digest of HashSize bytes.  SHA-1 is taken to be free of
\* collisions: the digest here tells apart all values shorter than HashSize.
Sha1(value) ==
    [i \in 1..HashSize |->
        IF i <= Len(value) THEN (value[i] + 7 * i) % 256
        ELSE (Len(value) + 13 * i) % 256]

\* An Encode that leaves the digest out of the size it allocates: the copy
\* of the digest finds no room.
EncodeBytes_SizeWithoutHash(e) ==
    LET kl == Len(e.key)
        vl == Len(e.value)
        size == kl + vl + HeaderSize
    IN  LE32(size) \o LE32(kl) \o e.key \o LE32(vl) \o e.value

\* entry.Encode.
EncodeBytes(e) ==
    LET kl == Len(e.key)
        vl == Len(e.value)
        hash == Sha1(e.value)
        size == kl + vl + HeaderSize + Len(hash)
    IN  LE32(size) \o LE32(kl) \o e.key \o LE32(vl) \o e.value \o hash

equalHash(a, b) ==
    /\ Len(a) = Len(b)
    /\ \A i \in 1..Len(a) : a[i] = b[i]

\* A slice expression or Uint32 call of Decode that is out of range.
DecodePanic == [err |-> "panic", key |-> <<>>, value |-> <<>>]

\* entry.Decode: the entry it leaves in the receiver and the error it
\* returns.  The error is fmt.Errorf("hash mismatch ..."), which wraps nothing
\* (errors.Is(err, ErrCorrupted) is false).
DecodeBytes(input) ==
    IF Len(input) < 8 THEN DecodePanic
    ELSE LET kl == Uint32(SubSeq(input, 5, 8))
         IN  IF Len(input) < 8 + kl + 4 THEN DecodePanic
             ELSE LET key == SubSeq(input, 9, 8 + kl)
                      vl == Uint32(SubSeq(input, 9 + kl, 12 + kl))
                      valueStart == 12 + kl
                  IN  IF Len(input) < valueStart + vl THEN DecodePanic
                      ELSE LET value == SubSeq(input, valueStart + 1,
                                               valueStart + vl)
                               expectedHash == SubSeq(input, valueStart + vl + 1,
                                                      Len(input))
                           IN  [err |-> IF equalHash(expectedHash, Sha1(value))
                                        THEN "nil" ELSE "hash mismatch",
                                key |-> key, value |-> value]

(***************************************************************************)
(* db.go: state of the directory and of the Db object                      *)
(***************************************************************************)
VARIABLES
    files,             \* the directory: files[id] is the content of segment-<id>
    segmentLimit,      \* db.segmentLimit
    currentSegment,    \* db.currentSegment: "open" or "closed" handle
    currentSegmentId,  \* db.currentSegmentId
    currentOffset,     \* db.currentOffset
    index,             \* db.index: key -> segmentRef (segmentId 0: no entry)
    writeCh,           \* db.writeCh: the queued writeRequests
    closeCh,           \* db.closeCh: "open" or "closed"
    wpc,               \* where the writer goroutine is
    wreq,              \* the request the writer holds, and n of its Write
    phase,             \* "open", "closed" (Close returned), "failed" (Open
                       \* returned an error), "crashed" (the process panicked)
    pc,                \* where each client's call is
    op,                \* each client's current or last call
    res,               \* what each client's last call returned
    nextVal,           \* the number of the next value to be Put
    budget,            \* Put calls left
    opens,             \* reopens done
    faults,            \* faults left to inject
    lastDone,          \* per key: the last Put that returned nil, and its session
    enqueued,          \* keys of the requests sent to writeCh in this session
    atOpen,            \* keys with a record in a segment replayed at Open
    mu,                \* db.mu: who holds the RWMutex and whether Lock waits
    tpc,               \* entry_test.go: where a codec test is
    tEntry,            \* the entry the test encodes
    tBuf,              \* the bytes it hands to Decode
    tOut,              \* what Decode made of them
    stream,            \* the records a bufio.Reader is over
    reader,            \* the bufio.Reader: read position and end of its buffer
    rcalls,            \* DecodeFromReader calls that returned an entry
    rOut               \* what the last DecodeFromReader call returned

\* The state of the codec's callers outside the Db.
testVars == <<tpc, tEntry, tBuf, tOut, stream, reader, rcalls, rOut>>

\* The directory, the Db object and its callers.
dbVars == <<files, segmentLimit, currentSegment, currentSegmentId,
            currentOffset, index, writeCh, closeCh, wpc, wreq, phase, pc, op,
            res, nextVal, budget, opens, faults, lastDone, enqueued, atOpen,
            mu>>

vars == <<dbVars, testVars>>

NoRef == [segmentId |-> 0, offset |-> 0]
NoReq == [key |-> "", val |-> 0, vlen |-> 0, client |-> "", n |-> 0]
NoOp  == [type |-> "none", key |-> "", val |-> 0, vlen |-> 0, ref |-> NoRef,
          after |-> 0]
NoRes == [err |-> "none", val |-> 0]
NoDone == [val |-> 0, session |-> 0]
\* The zero sync.RWMutex: no writer holds it, no reader does, no Lock waits.
Unlocked == [w |-> FALSE, r |-> {}, wait |-> FALSE]

\* segmentFilename's "%d" of the id, as its decimal digits.
RECURSIVE Digits(_)
Digits(n) == IF n < 10 THEN <<n>> ELSE Append(Digits(n \div 10), n % 10)

\* Order of two file names "segment-<a>", "segment-<b>" as strings.
RECURSIVE LexLess(_, _)
LexLess(s, t) ==
    IF t = <<>> THEN FALSE
    ELSE IF s = <<>> THEN TRUE
    ELSE IF Head(s) # Head(t) THEN Head(s) < Head(t)
    ELSE LexLess(Tail(s), Tail(t))

\* os.ReadDir returns the entries sorted by file name: the segment ids in the
\* order loadSegments meets them.
ReadDir(fs) ==
    LET n == Len(fs)
        Rank(i) == 1 + Cardinality({j \in 1..n : LexLess(Digits(j), Digits(i))})
    IN  [p \in 1..n |-> CHOOSE i \in 1..n : Rank(i) = p]

\* recoverSegment's loop from reader position lpos (the running offset, which
\* advances by the n of every record as the reader does).
RECURSIVE RecoverFrom(_, _, _, _, _)
RecoverFrom(file, id, lpos, bend, idx) ==
    LET r == DecodeFromReader(file, lpos, bend)
    IN  IF r.err = "EOF" THEN [err |-> "nil", index |-> idx]
        ELSE IF r.err # "nil" THEN [err |-> "corrupted segment", index |-> idx]
        ELSE RecoverFrom(file, id, lpos + r.n, r.bend,
                         [idx EXCEPT ![r.key] = [segmentId |-> id, offset |-> lpos]])

recoverSegment(fs, id, idx) == RecoverFrom(fs[id], id, 0, 0, idx)

\* loadSegments' loop over segmentIds, from position p of the listing.
RECURSIVE RecoverAll(_, _, _, _)
RecoverAll(fs, order, p, idx) ==
    IF p > Len(order) THEN [err |-> "nil", index |-> idx]
    ELSE LET r == recoverSegment(fs, order[p], idx)
         IN  IF r.err # "nil" THEN r
             ELSE RecoverAll(fs, order, p + 1, r.index)

EmptyIndex == [k \in Keys |-> NoRef]

\* loadSegments on directory fs with a fresh Db (currentSegmentId 0): an
\* empty directory gets segment-1; otherwise every segment is replayed and
\* the highest id becomes the current segment, its size the current offset.
loadSegments(fs) ==
    IF Len(fs) = 0
    THEN [err |-> "nil", index |-> EmptyIndex, files |-> <<<<>>>>,
          currentSegmentId |-> 1, currentOffset |-> 0]
    ELSE LET r == RecoverAll(fs, ReadDir(fs), 1, EmptyIndex)
         IN  [err |-> r.err, index |-> r.index, files |-> fs,
              currentSegmentId |-> Len(fs),
              currentOffset |-> FileSize(fs[Len(fs)])]

\* What Db.Get does from the looked-up ref on: open the segment, seek, decode
\* one record through a new bufio.Reader, and map the error.
GetRead(fs, ref) ==
    IF ref.segmentId \notin 1..Len(fs) THEN [err |-> "no such file", val |-> 0]
    ELSE LET r == DecodeFromReader(fs[ref.segmentId], ref.offset, ref.offset)
         IN  IF r.err = "ErrCorrupted" THEN [err |-> "ErrCorrupted", val |-> 0]
             ELSE IF r.err # "nil" THEN [err |-> r.err, val |-> 0]
             ELSE [err |-> "nil", val |-> r.val]

\* A Lookup that takes the zero segmentRef of a missing key for an entry.
Lookup_NoOkCheck(idx, k) == [ok |-> TRUE, ref |-> idx[k]]

\* ref, ok := db.index[key]
Lookup(idx, k) == [ok |-> idx[k] # NoRef, ref |-> idx[k]]

\* Db.Get run in one piece on the given index and directory.
Get(idx, fs, k) ==
    IF ~Lookup(idx, k).ok THEN [err |-> "ErrNotFound", val |-> 0]
    ELSE GetRead(fs, Lookup(idx, k).ref)

\* Keys that have a record in some segment of the directory.
KeysIn(fs) ==
    {k \in Keys : \E s \in 1..Len(fs) : \E i \in 1..Len(fs[s]) : fs[s][i].key = k}

NoEntry == [key |-> <<>>, value |-> <<>>]
NoOut == [err |-> "none", key |-> <<>>, value |-> <<>>]
NoReader == [lpos |-> 0, bend |-> 0]
NoRead == [n |-> 0, err |-> "none", key |-> "", val |-> 0, at |-> 0]

\* No codec test runs.
NoTest ==
    /\ tpc = "off"
    /\ tEntry = NoEntry
    /\ tBuf = <<>>
    /\ tOut = NoOut
    /\ stream = <<>>
    /\ reader = NoReader
    /\ rcalls = 0
    /\ rOut = NoRead

(***************************************************************************)
(* OpenWithLimit on an empty directory                                     *)
(***************************************************************************)
InitWith(nfaults) ==
    LET r == loadSegments(<<>>)
    IN  /\ files = r.files
        /\ segmentLimit \in Limits
        /\ currentSegment = "open"
        /\ currentSegmentId = r.currentSegmentId
        /\ currentOffset = r.currentOffset
        /\ index = r.index
        /\ writeCh = <<>>
        /\ closeCh = "open"
        /\ wpc = "select"
        /\ wreq = NoReq
        /\ phase = "open"
        /\ pc = [c \in Clients |-> "idle"]
        /\ op = [c \in Clients |-> NoOp]
        /\ res = [c \in Clients |-> NoRes]
        /\ nextVal = 1
        /\ budget = MaxPuts
        /\ opens = 0
        /\ faults = nfaults
        /\ lastDone = [k \in Keys |-> NoDone]
        /\ enqueued = {}
        /\ atOpen = {}
        /\ mu = Unlocked
        /\ NoTest

Init == InitWith(0)

\* A Db object exists: Open returned it, and the process is alive.
HasDb == phase \in {"open", "closed"}

(***************************************************************************)
(* Db.Put: send the request to writeCh, then wait on its done channel      *)
(***************************************************************************)
PutCall(c, k, vlen) ==
    /\ HasDb
    /\ pc[c] = "idle"
    /\ budget > 0
    /\ pc' = [pc EXCEPT ![c] = "put_send"]
    /\ op' = [op EXCEPT ![c] = [NoOp EXCEPT !.type = "put", !.key = k,
                                            !.val = nextVal, !.vlen = vlen]]
    /\ res' = [res EXCEPT ![c] = NoRes]
    /\ nextVal' = nextVal + 1
    /\ budget' = budget - 1
    /\ UNCHANGED <<files, segmentLimit, currentSegment, currentSegmentId,
                   currentOffset, index, writeCh, closeCh, wpc, wreq, phase,
                   opens, faults, lastDone, enqueued, atOpen>>
    /\ UNCHANGED <<mu, testVars>>

\* A send that does not wait for a free slot of the channel.
PutSend_NoCapacity(c) ==
    /\ HasDb
    /\ pc[c] = "put_send"
    /\ writeCh' = Append(writeCh, [key |-> op[c].key, val |-> op[c].val,
                                   vlen |-> op[c].vlen, client |-> c, n |-> 0])
    /\ pc' = [pc EXCEPT ![c] = "put_wait"]
    /\ enqueued' = enqueued \cup {op[c].key}
    /\ UNCHANGED <<files, segmentLimit, currentSegment, currentSegmentId,
                   currentOffset, index, closeCh, wpc, wreq, phase, op, res,
                   nextVal, budget, opens, faults, lastDone, atOpen>>
    /\ UNCHANGED <<mu, testVars>>

\* db.writeCh <- req: blocks while the channel holds QueueCap requests.
PutSend(c) ==
    /\ HasDb
    /\ pc[c] = "put_send"
    /\ Len(writeCh) < QueueCap
    /\ writeCh' = Append(writeCh, [key |-> op[c].key, val |-> op[c].val,
                                   vlen |-> op[c].vlen, client |-> c, n |-> 0])
    /\ pc' = [pc EXCEPT ![c] = "put_wait"]
    /\ enqueued' = enqueued \cup {op[c].key}
    /\ UNCHANGED <<files, segmentLimit, currentSegment, currentSegmentId,
                   currentOffset, index, closeCh, wpc, wreq, phase, op, res,
                   nextVal, budget, opens, faults, lastDone, atOpen>>
    /\ UNCHANGED <<mu, testVars>>

(***************************************************************************)
(* Db.writer and Db.writeEntry                                             *)
(***************************************************************************)
\* A rotation test that looks only at what the segment already holds.
NeedsRotation_AlreadyFull(offset, size, limit) == offset > limit

\* writeEntry's rotation test.
NeedsRotation(offset, size, limit) == offset + size > limit

\* A createNewSegment that forgets to reset the offset (it gets the offset
\* the full segment had).
createNewSegment_KeepOffset(fs, id) ==
    [files |-> IF id + 1 > Len(fs) THEN Append(fs, <<>>) ELSE fs,
     currentSegmentId |-> id + 1,
     currentOffset |-> FileSize(fs[id])]

\* createNewSegment: the next id, O_CREATE of its file, offset 0.
createNewSegment(fs, id) ==
    [files |-> IF id + 1 > Len(fs) THEN Append(fs, <<>>) ELSE fs,
     currentSegmentId |-> id + 1,
     currentOffset |-> 0]

\* The file part of writeEntry (db.go:86-101): rotate if the record does not
\* fit, then Write to the current segment, which is open O_APPEND: present
\* bytes of the record land at the end of the file.
writeEntryFile(fs, id, offset, limit, req, present) ==
    LET ch == Encode(req.key, req.val, req.vlen)
        cur == IF NeedsRotation(offset, ChunkSize(ch), limit)
               THEN createNewSegment(fs, id)
               ELSE [files |-> fs, currentSegmentId |-> id,
                     currentOffset |-> offset]
    IN  [files |-> [cur.files EXCEPT ![cur.currentSegmentId] =
                        Append(@, [ch EXCEPT !.present = present])],
         currentSegmentId |-> cur.currentSegmentId,
         currentOffset |-> cur.currentOffset,
         n |-> present]

\* case req := <-db.writeCh, then writeEntry up to the Write.
WriterWrite ==
    /\ wpc = "select"
    /\ writeCh # <<>>
    /\ LET req == Head(writeCh)
           w == writeEntryFile(files, currentSegmentId, currentOffset,
                               segmentLimit, req,
                               EncodedSize(req.key, req.vlen))
       IN  /\ files' = w.files
           /\ currentSegmentId' = w.currentSegmentId
           /\ currentOffset' = w.currentOffset
           /\ wreq' = [req EXCEPT !.n = w.n]
    /\ writeCh' = Tail(writeCh)
    /\ wpc' = "index"
    /\ UNCHANGED <<segmentLimit, currentSegment, index, closeCh, phase, pc, op,
                   res, nextVal, budget, opens, faults, lastDone, enqueued,
                   atOpen>>
    /\ UNCHANGED <<mu, testVars>>

\* The index entry writeEntry stores for the record it wrote.
NewRef(id, offset) == [segmentId |-> id, offset |-> offset]

\* An index update that keeps the entry a key has already.
WriterIndex_KeepsFirst ==
    /\ wpc = "index"
    /\ index' = IF index[wreq.key] # NoRef THEN index
                ELSE [index EXCEPT ![wreq.key] =
                          NewRef(currentSegmentId, currentOffset)]
    /\ currentOffset' = currentOffset + wreq.n
    /\ wpc' = "signal"
    /\ UNCHANGED <<files, segmentLimit, currentSegment, currentSegmentId,
                   writeCh, closeCh, wreq, phase, pc, op, res, nextVal, budget,
                   opens, faults, lastDone, enqueued, atOpen>>
    /\ UNCHANGED <<mu, testVars>>

\* writeEntry under db.mu.Lock (db.go:103-109).
WriterIndex ==
    /\ wpc = "index"
    /\ index' = [index EXCEPT ![wreq.key] = NewRef(currentSegmentId, currentOffset)]
    /\ currentOffset' = currentOffset + wreq.n
    /\ wpc' = "signal"
    /\ UNCHANGED <<files, segmentLimit, currentSegment, currentSegmentId,
                   writeCh, closeCh, wreq, phase, pc, op, res, nextVal, budget,
                   opens, faults, lastDone, enqueued, atOpen>>
    /\ UNCHANGED <<mu, testVars>>

\* A writer that sends on req.done before it updates the index.
WriterSignal_BeforeIndex ==
    \/ /\ wpc = "index"
       /\ pc[wreq.client] = "put_wait"
       /\ lastDone[wreq.key].val # wreq.val
       /\ pc' = [pc EXCEPT ![wreq.client] = "idle"]
       /\ res' = [res EXCEPT ![wreq.client] = [err |-> "nil", val |-> 0]]
       /\ lastDone' = [lastDone EXCEPT ![wreq.key] =
                           [val |-> wreq.val, session |-> opens]]
       /\ UNCHANGED <<files, segmentLimit, currentSegment, currentSegmentId,
                      currentOffset, index, writeCh, closeCh, wpc, wreq, phase,
                      op, nextVal, budget, opens, faults, enqueued, atOpen,
                      mu, testVars>>
    \/ /\ wpc = "signal"
       /\ wreq' = NoReq
       /\ wpc' = "select"
       /\ UNCHANGED <<files, segmentLimit, currentSegment, currentSegmentId,
                      currentOffset, index, writeCh, closeCh, phase, pc, op,
                      res, nextVal, budget, opens, faults, lastDone, enqueued,
                      atOpen, mu, testVars>>

\* req.done <- err, received by the Put that waits on it.
WriterSignal ==
    /\ wpc = "signal"
    /\ pc[wreq.client] = "put_wait"
    /\ pc' = [pc EXCEPT ![wreq.client] = "idle"]
    /\ res' = [res EXCEPT ![wreq.client] = [err |-> "nil", val |-> 0]]
    /\ lastDone' = [lastDone EXCEPT ![wreq.key] =
                        [val |-> wreq.val, session |-> opens]]
    /\ wreq' = NoReq
    /\ wpc' = "select"
    /\ UNCHANGED <<files, segmentLimit, currentSegment, currentSegmentId,
                   currentOffset, index, writeCh, closeCh, phase, op, nextVal,
                   budget, opens, faults, enqueued, atOpen>>
    /\ UNCHANGED <<mu, testVars>>

\* case <-db.closeCh: return.  select may take it while requests are queued.
WriterExit ==
    /\ wpc = "select"
    /\ closeCh = "closed"
    /\ wpc' = "exited"
    /\ UNCHANGED <<files, segmentLimit, currentSegment, currentSegmentId,
                   currentOffset, index, writeCh, closeCh, wreq, phase, pc, op,
                   res, nextVal, budget, opens, faults, lastDone, enqueued,
                   atOpen>>
    /\ UNCHANGED <<mu, testVars>>

(***************************************************************************)
(* Db.Get                                                                  *)
(***************************************************************************)
\* The last Put of k that returned nil in this session (0: none).
DoneHere(k) == IF lastDone[k].session = opens THEN lastDone[k].val ELSE 0

\* The index lookup under db.mu.RLock (db.go:125-130).
GetLookup(c, k) ==
    /\ HasDb
    /\ pc[c] = "idle"
    /\ op' = [op EXCEPT ![c] = [NoOp EXCEPT !.type = "get", !.key = k,
                                            !.ref = Lookup(index, k).ref,
                                            !.after = DoneHere(k)]]
    /\ IF ~Lookup(index, k).ok
       THEN /\ pc' = pc
            /\ res' = [res EXCEPT ![c] = [err |-> "ErrNotFound", val |-> 0]]
       ELSE /\ pc' = [pc EXCEPT ![c] = "get_read"]
            /\ res' = [res EXCEPT ![c] = NoRes]
    /\ UNCHANGED <<files, segmentLimit, currentSegment, currentSegmentId,
                   currentOffset, index, writeCh, closeCh, wpc, wreq, phase,
                   nextVal, budget, opens, faults, lastDone, enqueued, atOpen>>
    /\ UNCHANGED <<mu, testVars>>

\* The file part of Get (db.go:131-150).
GetFinish(c) ==
    /\ pc[c] = "get_read"
    /\ phase # "crashed"
    /\ res' = [res EXCEPT ![c] = GetRead(files, op[c].ref)]
    /\ pc' = [pc EXCEPT ![c] = "idle"]
    /\ UNCHANGED <<files, segmentLimit, currentSegment, currentSegmentId,
                   currentOffset, index, writeCh, closeCh, wpc, wreq, phase, op,
                   nextVal, budget, opens, faults, lastDone, enqueued, atOpen>>
    /\ UNCHANGED <<mu, testVars>>

(***************************************************************************)
(* Db.Close                                                                *)
(***************************************************************************)
\* close(db.closeCh) on a channel that is open.
CloseCall(c) ==
    /\ HasDb
    /\ pc[c] = "idle"
    /\ closeCh = "open"
    /\ closeCh' = "closed"
    /\ pc' = [pc EXCEPT ![c] = "close_wait"]
    /\ op' = [op EXCEPT ![c] = [NoOp EXCEPT !.type = "close"]]
    /\ res' = [res EXCEPT ![c] = NoRes]
    /\ UNCHANGED <<files, segmentLimit, currentSegment, currentSegmentId,
                   currentOffset, index, writeCh, wpc, wreq, phase, nextVal,
                   budget, opens, faults, lastDone, enqueued, atOpen>>
    /\ UNCHANGED <<mu, testVars>>

\* close(db.closeCh) on a channel that is closed already: the runtime panics
\* ("close of closed channel") and the process dies.
ClosePanic(c) ==
    /\ HasDb
    /\ pc[c] = "idle"
    /\ closeCh = "closed"
    /\ phase' = "crashed"
    /\ op' = [op EXCEPT ![c] = [NoOp EXCEPT !.type = "close"]]
    /\ res' = [res EXCEPT ![c] = [err |-> "panic", val |-> 0]]
    /\ UNCHANGED <<files, segmentLimit, currentSegment, currentSegmentId,
                   currentOffset, index, writeCh, closeCh, wpc, wreq, pc,
                   nextVal, budget, opens, faults, lastDone, enqueued, atOpen>>
    /\ UNCHANGED <<mu, testVars>>

\* A Close that does not wait for the writer before it closes the segment.
CloseReturn_NoWait(c) ==
    /\ pc[c] = "close_wait"
    /\ phase = "open"
    /\ currentSegment' = "closed"
    /\ phase' = "closed"
    /\ pc' = [pc EXCEPT ![c] = "idle"]
    /\ res' = [res EXCEPT ![c] = [err |-> "nil", val |-> 0]]
    /\ UNCHANGED <<files, segmentLimit, currentSegmentId, currentOffset, index,
                   writeCh, closeCh, wreq, wpc, op, nextVal, budget, opens,
                   faults, lastDone, enqueued, atOpen>>
    /\ UNCHANGED <<mu, testVars>>

\* db.wg.Wait() returns once the writer has exited; then the current segment
\* is closed and Close returns.
CloseReturn(c) ==
    /\ pc[c] = "close_wait"
    /\ phase = "open"
    /\ wpc = "exited"
    /\ currentSegment' = "closed"
    /\ phase' = "closed"
    /\ pc' = [pc EXCEPT ![c] = "idle"]
    /\ res' = [res EXCEPT ![c] = [err |-> "nil", val |-> 0]]
    /\ UNCHANGED <<files, segmentLimit, currentSegmentId, currentOffset, index,
                   writeCh, closeCh, wreq, wpc, op, nextVal, budget, opens,
                   faults, lastDone, enqueued, atOpen>>
    /\ UNCHANGED <<mu, testVars>>

(***************************************************************************)
(* Db.Size                                                                 *)
(***************************************************************************)
\* A Size that adds up the segments of the whole store.
RECURSIVE TotalSize(_)
TotalSize(fs) == IF fs = <<>> THEN 0 ELSE FileSize(Head(fs)) + TotalSize(Tail(fs))

Size_TotalStore == TotalSize(files)

\* Size returns db.currentOffset (and no error).
Size == currentOffset

(***************************************************************************)
(* OpenWithLimit on the directory a closed Db (or a dead process) left     *)
(***************************************************************************)
\* Calls that wait on the channels of the Db that was abandoned wait for ever.
Abandon(p) == IF p \in {"put_send", "put_wait"} THEN "blocked" ELSE p

Open(c, limit) ==
    /\ phase \in {"closed", "down"}
    /\ pc[c] = "idle"
    /\ opens < MaxOpens
    /\ opens' = opens + 1
    /\ LET r == loadSegments(files)
       IN  IF r.err # "nil"
           THEN /\ phase' = "failed"
                /\ res' = [res EXCEPT ![c] = [err |-> r.err, val |-> 0]]
                /\ UNCHANGED <<files, segmentLimit, currentSegment,
                               currentSegmentId, currentOffset, index, writeCh,
                               closeCh, wpc, wreq, enqueued, atOpen>>
           ELSE /\ phase' = "open"
                /\ res' = [res EXCEPT ![c] = [err |-> "nil", val |-> 0]]
                /\ files' = r.files
                /\ segmentLimit' = limit
                /\ currentSegment' = "open"
                /\ currentSegmentId' = r.currentSegmentId
                /\ currentOffset' = r.currentOffset
                /\ index' = r.index
                /\ writeCh' = <<>>
                /\ closeCh' = "open"
                /\ wpc' = "select"
                /\ wreq' = NoReq
                /\ enqueued' = {}
                /\ atOpen' = KeysIn(files)
    /\ op' = [op EXCEPT ![c] = [NoOp EXCEPT !.type = "open"]]
    /\ pc' = [d \in Clients |-> Abandon(pc[d])]
    /\ UNCHANGED <<nextVal, budget, faults, lastDone>>
    /\ UNCHANGED <<mu, testVars>>

(***************************************************************************)
(* The environment's faults                                                *)
(***************************************************************************)
\* Bytes of the value or of the checksum of a record are altered on disk.
Tamper(s, i) ==
    /\ faults > 0
    /\ HasDb
    /\ s \in 1..Len(files)
    /\ i \in 1..Len(files[s])
    /\ ~files[s][i].bad
    /\ files' = [files EXCEPT ![s][i].bad = TRUE]
    /\ faults' = faults - 1
    /\ UNCHANGED <<segmentLimit, currentSegment, currentSegmentId,
                   currentOffset, index, writeCh, closeCh, wpc, wreq, phase, pc,
                   op, res, nextVal, budget, opens, lastDone, enqueued, atOpen>>
    /\ UNCHANGED <<mu, testVars>>

\* The process is killed while the writer's Write of the next request has put
\* only t bytes of the record on disk.
CrashMidWrite(t) ==
    /\ faults > 0
    /\ phase = "open"
    /\ wpc = "select"
    /\ writeCh # <<>>
    /\ t < EncodedSize(Head(writeCh).key, Head(writeCh).vlen)
    /\ files' = writeEntryFile(files, currentSegmentId, currentOffset,
                               segmentLimit, Head(writeCh), t).files
    /\ faults' = faults - 1
    /\ phase' = "down"
    /\ writeCh' = <<>>
    /\ wpc' = "exited"
    /\ currentSegment' = "closed"
    /\ pc' = [c \in Clients |-> "idle"]
    /\ op' = [c \in Clients |-> NoOp]
    /\ res' = [c \in Clients |-> NoRes]
    /\ UNCHANGED <<segmentLimit, currentSegmentId, currentOffset, index,
                   closeCh, wreq, nextVal, budget, opens, lastDone, enqueued,
                   atOpen>>
    /\ UNCHANGED <<mu, testVars>>

(***************************************************************************)
(* A session of Puts by one caller, Close, and OpenWithLimit on what it    *)
(* left                                                                    *)
(***************************************************************************)
InitReplay ==
    LET r == loadSegments(<<>>)
    IN  /\ files = r.files
        /\ segmentLimit \in ReplayLimits
        /\ currentSegment = "open"
        /\ currentSegmentId = r.currentSegmentId
        /\ currentOffset = r.currentOffset
        /\ index = r.index
        /\ writeCh = <<>>
        /\ closeCh = "open"
        /\ wpc = "select"
        /\ wreq = NoReq
        /\ phase = "open"
        /\ pc = [c \in Clients |-> "idle"]
        /\ op = [c \in Clients |-> NoOp]
        /\ res = [c \in Clients |-> NoRes]
        /\ nextVal = 1
        /\ budget = ReplayPuts
        /\ opens = 0
        /\ faults = 0
        /\ lastDone = [k \in Keys |-> NoDone]
        /\ enqueued = {}
        /\ atOpen = {}
        /\ mu = Unlocked
        /\ NoTest

\* The caller.
Caller == CHOOSE c \in Clients : TRUE

\* The caller puts short values, then closes the Db; the directory is then
\* opened again.
NextReplay ==
    \/ \E k \in Keys, vlen \in {2} : opens = 0 /\ PutCall(Caller, k, vlen)
    \/ PutSend(Caller)
    \/ WriterWrite
    \/ WriterIndex
    \/ WriterSignal
    \/ WriterExit
    \/ CloseCall(Caller)
    \/ CloseReturn(Caller)
    \/ \E limit \in ReplayLimits : Open(Caller, limit)

SpecReplay == InitReplay /\ [][NextReplay]_vars

(***************************************************************************)
(* Puts and one Close on an open Db, with the scheduler's fairness         *)
(***************************************************************************)
InitStop ==
    LET r == loadSegments(<<>>)
    IN  /\ files = r.files
        /\ segmentLimit \in Limits
        /\ currentSegment = "open"
        /\ currentSegmentId = r.currentSegmentId
        /\ currentOffset = r.currentOffset
        /\ index = r.index
        /\ writeCh = <<>>
        /\ closeCh = "open"
        /\ wpc = "select"
        /\ wreq = NoReq
        /\ phase = "open"
        /\ pc = [c \in Clients |-> "idle"]
        /\ op = [c \in Clients |-> NoOp]
        /\ res = [c \in Clients |-> NoRes]
        /\ nextVal = 1
        /\ budget = StopPuts
        /\ opens = 0
        /\ faults = 0
        /\ lastDone = [k \in Keys |-> NoDone]
        /\ enqueued = {}
        /\ atOpen = {}
        /\ mu = Unlocked
        /\ NoTest

NextStop ==
    \/ \E c \in Clients, k \in Keys, vlen \in ValLens : PutCall(c, k, vlen)
    \/ \E c \in Clients : PutSend(c)
    \/ WriterWrite
    \/ WriterIndex
    \/ WriterSignal
    \/ WriterExit
    \/ \E c \in Clients : CloseCall(c)
    \/ \E c \in Clients : CloseReturn(c)

\* Every goroutine that can run does run: a Put whose send can proceed
\* sends, the writer goes on with the request it holds and a Close whose
\* wg.Wait() can return does return.  A select that is ready to receive from
\* closeCh again and again does take that case (Go chooses among the ready
\* cases at random).
FairStop ==
    /\ \A c \in Clients : WF_vars(PutSend(c))
    /\ WF_vars(WriterWrite)
    /\ WF_vars(WriterIndex)
    /\ WF_vars(WriterSignal)
    /\ SF_vars(WriterExit)
    /\ \A c \in Clients : WF_vars(CloseReturn(c))

SpecStop == InitStop /\ [][NextStop]_vars /\ FairStop

(***************************************************************************)
(* Put and Get with the steps under db.mu told apart                       *)
(***************************************************************************)
InitLock ==
    LET r == loadSegments(<<>>)
    IN  /\ files = r.files
        /\ segmentLimit \in Limits
        /\ currentSegment = "open"
        /\ currentSegmentId = r.currentSegmentId
        /\ currentOffset = r.currentOffset
        /\ index = r.index
        /\ writeCh = <<>>
        /\ closeCh = "open"
        /\ wpc = "select"
        /\ wreq = NoReq
        /\ phase = "open"
        /\ pc = [c \in Clients |-> "idle"]
        /\ op = [c \in Clients |-> NoOp]
        /\ res = [c \in Clients |-> NoRes]
        /\ nextVal = 1
        /\ budget = LockPuts
        /\ opens = 0
        /\ faults = 0
        /\ lastDone = [k \in Keys |-> NoDone]
        /\ enqueued = {}
        /\ atOpen = {}
        /\ mu = Unlocked
        /\ NoTest

\* db.mu.Lock() is called (db.go:103): it is granted at once if nobody holds
\* the mutex; otherwise the writer waits, and new readers wait behind it.
WriterLockCall ==
    /\ wpc = "index"
    /\ IF mu.r = {}
       THEN /\ mu' = [mu EXCEPT !.w = TRUE]
            /\ wpc' = "locked"
       ELSE /\ mu' = [mu EXCEPT !.wait = TRUE]
            /\ wpc' = "lock_wait"
    /\ UNCHANGED <<files, segmentLimit, currentSegment, currentSegmentId,
                   currentOffset, index, writeCh, closeCh, wreq, phase, pc, op,
                   res, nextVal, budget, opens, faults, lastDone, enqueued,
                   atOpen, testVars>>

\* The last reader has left: the waiting Lock returns.
WriterLockGranted ==
    /\ wpc = "lock_wait"
    /\ mu.r = {}
    /\ mu' = [mu EXCEPT !.w = TRUE, !.wait = FALSE]
    /\ wpc' = "locked"
    /\ UNCHANGED <<files, segmentLimit, currentSegment, currentSegmentId,
                   currentOffset, index, writeCh, closeCh, wreq, phase, pc, op,
                   res, nextVal, budget, opens, faults, lastDone, enqueued,
                   atOpen, testVars>>

\* db.index[key] = segmentRef{...}; db.currentOffset += int64(n)
\* (db.go:104-108).
WriterIndexUpdate ==
    /\ wpc = "locked"
    /\ index' = [index EXCEPT ![wreq.key] = NewRef(currentSegmentId, currentOffset)]
    /\ currentOffset' = currentOffset + wreq.n
    /\ wpc' = "updated"
    /\ UNCHANGED <<files, segmentLimit, currentSegment, currentSegmentId,
                   writeCh, closeCh, wreq, phase, pc, op, res, nextVal, budget,
                   opens, faults, lastDone, enqueued, atOpen, mu, testVars>>

\* db.mu.Unlock() (db.go:109); writeEntry returns.
WriterUnlock ==
    /\ wpc = "updated"
    /\ mu' = [mu EXCEPT !.w = FALSE]
    /\ wpc' = "signal"
    /\ UNCHANGED <<files, segmentLimit, currentSegment, currentSegmentId,
                   currentOffset, index, writeCh, closeCh, wreq, phase, pc, op,
                   res, nextVal, budget, opens, faults, lastDone, enqueued,
                   atOpen, testVars>>

\* Get is called and calls db.mu.RLock() (db.go:125).
GetCall(c, k) ==
    /\ HasDb
    /\ pc[c] = "idle"
    /\ pc' = [pc EXCEPT ![c] = "get_rlock"]
    /\ op' = [op EXCEPT ![c] = [NoOp EXCEPT !.type = "get", !.key = k]]
    /\ res' = [res EXCEPT ![c] = NoRes]
    /\ UNCHANGED <<files, segmentLimit, currentSegment, currentSegmentId,
                   currentOffset, index, writeCh, closeCh, wpc, wreq, phase,
                   nextVal, budget, opens, faults, lastDone, enqueued, atOpen,
                   mu, testVars>>

\* A Get that keeps the shared lock until it returns (defer db.mu.RUnlock()).
GetRUnlock_Deferred(c) ==
    /\ pc[c] = "get_looked"
    /\ IF op[c].ref = NoRef
       THEN /\ pc' = [pc EXCEPT ![c] = "idle"]
            /\ res' = [res EXCEPT ![c] = [err |-> "ErrNotFound", val |-> 0]]
            /\ mu' = [mu EXCEPT !.r = @ \ {c}]
       ELSE /\ pc' = [pc EXCEPT ![c] = "get_read"]
            /\ res' = res
            /\ mu' = mu
    /\ UNCHANGED <<files, segmentLimit, currentSegment, currentSegmentId,
                   currentOffset, index, writeCh, closeCh, wpc, wreq, phase, op,
                   nextVal, budget, opens, faults, lastDone, enqueued, atOpen,
                   testVars>>

\* RLock returns: no writer holds the mutex and no Lock call waits for it.
GetRLock(c) ==
    /\ pc[c] = "get_rlock"
    /\ ~mu.w
    /\ ~mu.wait
    /\ mu' = [mu EXCEPT !.r = @ \cup {c}]
    /\ pc' = [pc EXCEPT ![c] = "get_rlocked"]
    /\ UNCHANGED <<files, segmentLimit, currentSegment, currentSegmentId,
                   currentOffset, index, writeCh, closeCh, wpc, wreq, phase, op,
                   res, nextVal, budget, opens, faults, lastDone, enqueued,
                   atOpen, testVars>>

\* ref, ok := db.index[key] (db.go:126).
GetIndexLookup(c) ==
    /\ pc[c] = "get_rlocked"
    /\ op' = [op EXCEPT ![c].ref = Lookup(index, op[c].key).ref,
                        ![c].after = DoneHere(op[c].key)]
    /\ pc' = [pc EXCEPT ![c] = "get_looked"]
    /\ UNCHANGED <<files, segmentLimit, currentSegment, currentSegmentId,
                   currentOffset, index, writeCh, closeCh, wpc, wreq, phase,
                   res, nextVal, budget, opens, faults, lastDone, enqueued,
                   atOpen, mu, testVars>>

\* db.mu.RUnlock() (db.go:127), then ErrNotFound if the key had no entry.
GetRUnlock(c) ==
    /\ pc[c] = "get_looked"
    /\ mu' = [mu EXCEPT !.r = @ \ {c}]
    /\ IF op[c].ref = NoRef
       THEN /\ pc' = [pc EXCEPT ![c] = "idle"]
            /\ res' = [res EXCEPT ![c] = [err |-> "ErrNotFound", val |-> 0]]
       ELSE /\ pc' = [pc EXCEPT ![c] = "get_read"]
            /\ res' = res
    /\ UNCHANGED <<files, segmentLimit, currentSegment, currentSegmentId,
                   currentOffset, index, writeCh, closeCh, wpc, wreq, phase, op,
                   nextVal, budget, opens, faults, lastDone, enqueued, atOpen,
                   testVars>>

NextLock ==
    \/ \E c \in Clients, k \in Keys, vlen \in ValLens : PutCall(c, k, vlen)
    \/ \E c \in Clients : PutSend(c)
    \/ WriterWrite
    \/ WriterLockCall
    \/ WriterLockGranted
    \/ WriterIndexUpdate
    \/ WriterUnlock
    \/ WriterSignal
    \/ WriterExit
    \/ \E c \in Clients, k \in Keys : GetCall(c, k)
    \/ \E c \in Clients : GetRLock(c)
    \/ \E c \in Clients : GetIndexLookup(c)
    \/ \E c \in Clients : GetRUnlock(c)
    \/ \E c \in Clients : GetFinish(c)
    \/ \E c \in Clients : CloseCall(c)
    \/ \E c \in Clients : CloseReturn(c)

SpecLock == InitLock /\ [][NextLock]_vars

(***************************************************************************)
(* Size called while Puts, Gets and Close run                              *)
(***************************************************************************)
\* Size is called: its next step is the load of db.currentOffset.
SizeCall(c) ==
    /\ HasDb
    /\ pc[c] = "idle"
    /\ pc' = [pc EXCEPT ![c] = "size_read"]
    /\ op' = [op EXCEPT ![c] = [NoOp EXCEPT !.type = "size"]]
    /\ res' = [res EXCEPT ![c] = NoRes]
    /\ UNCHANGED <<files, segmentLimit, currentSegment, currentSegmentId,
                   currentOffset, index, writeCh, closeCh, wpc, wreq, phase,
                   nextVal, budget, opens, faults, lastDone, enqueued, atOpen,
                   mu, testVars>>

\* The writer's next step stores to db.currentOffset: the update under
\* db.mu (db.go:108), or createNewSegment's reset in a rotation (db.go:248),
\* which is under no lock.
WriterStoresOffset ==
    \/ wpc = "locked"
    \/ /\ wpc = "select"
       /\ writeCh # <<>>
       /\ NeedsRotation(currentOffset,
                        EncodedSize(Head(writeCh).key, Head(writeCh).vlen),
                        segmentLimit)

\* What a load of db.currentOffset can give: the value in memory, and, when
\* the writer is storing to it at the same time, the value being stored.
OffsetLoads ==
    {currentOffset}
        \cup (IF wpc = "locked" THEN {currentOffset + wreq.n} ELSE {})
        \cup (IF wpc = "select" /\ WriterStoresOffset THEN {0} ELSE {})

\* return db.currentOffset, nil: a plain load, with no lock held.
SizeRead(c) ==
    /\ pc[c] = "size_read"
    /\ \E v \in OffsetLoads : res' = [res EXCEPT ![c] = [err |-> "nil", val |-> v]]
    /\ pc' = [pc EXCEPT ![c] = "idle"]
    /\ UNCHANGED <<files, segmentLimit, currentSegment, currentSegmentId,
                   currentOffset, index, writeCh, closeCh, wpc, wreq, phase, op,
                   nextVal, budget, opens, faults, lastDone, enqueued, atOpen,
                   mu, testVars>>

NextRace ==
    \/ NextLock
    \/ \E c \in Clients : SizeCall(c)
    \/ \E c \in Clients : SizeRead(c)

SpecRace == InitLock /\ [][NextRace]_vars

(***************************************************************************)
(* Put and Get on a Db whose file operations may fail                      *)
(***************************************************************************)
InitIO ==
    LET r == loadSegments(<<>>)
    IN  /\ files = r.files
        /\ segmentLimit \in IOLimits
        /\ currentSegment = "open"
        /\ currentSegmentId = r.currentSegmentId
        /\ currentOffset = r.currentOffset
        /\ index = r.index
        /\ writeCh = <<>>
        /\ closeCh = "open"
        /\ wpc = "select"
        /\ wreq = NoReq
        /\ phase = "open"
        /\ pc = [c \in Clients |-> "idle"]
        /\ op = [c \in Clients |-> NoOp]
        /\ res = [c \in Clients |-> NoRes]
        /\ nextVal = 1
        /\ budget = IOPuts
        /\ opens = 0
        /\ faults = MaxIOFaults
        /\ lastDone = [k \in Keys |-> NoDone]
        /\ enqueued = {}
        /\ atOpen = {}
        /\ mu = Unlocked
        /\ NoTest

\* The ways in which writeEntry returns an error on an open handle:
\*   "close"   db.currentSegment.Close() fails (db.go:90-92); os.File.Close
\*             leaves the handle closed also when it returns an error;
\*   "create"  createNewSegment fails in OpenFile (db.go:242-245), after it
\*             has incremented db.currentSegmentId and after the old handle
\*             was closed; no file is made;
\*   "write"   Write returns an error with n of the record's bytes in the
\*             file (db.go:98-101), after a rotation if one was due.
writeEntryFails(fs, id, offset, limit, handle, req, kind, n) ==
    LET size == EncodedSize(req.key, req.vlen)
        rot == NeedsRotation(offset, size, limit)
        cur == IF rot THEN createNewSegment(fs, id)
               ELSE [files |-> fs, currentSegmentId |-> id,
                     currentOffset |-> offset]
    IN  IF kind = "close"
        THEN [ok |-> rot, files |-> fs, currentSegmentId |-> id,
              currentOffset |-> offset, currentSegment |-> "closed"]
        ELSE IF kind = "create"
        THEN [ok |-> rot, files |-> fs, currentSegmentId |-> id + 1,
              currentOffset |-> offset, currentSegment |-> "closed"]
        ELSE [ok |-> n < size,
              files |-> IF n = 0 THEN cur.files
                        ELSE writeEntryFile(fs, id, offset, limit, req, n).files,
              currentSegmentId |-> cur.currentSegmentId,
              currentOffset |-> cur.currentOffset,
              currentSegment |-> handle]

\* case req := <-db.writeCh, then a writeEntry in which a file operation
\* fails.
WriterFail(kind, n) ==
    /\ wpc = "select"
    /\ writeCh # <<>>
    /\ currentSegment = "open"
    /\ faults > 0
    /\ LET f == writeEntryFails(files, currentSegmentId, currentOffset,
                                segmentLimit, currentSegment, Head(writeCh),
                                kind, n)
       IN  /\ f.ok
           /\ files' = f.files
           /\ currentSegmentId' = f.currentSegmentId
           /\ currentOffset' = f.currentOffset
           /\ currentSegment' = f.currentSegment
    /\ wreq' = [Head(writeCh) EXCEPT !.n = n]
    /\ writeCh' = Tail(writeCh)
    /\ faults' = faults - 1
    /\ wpc' = "fail"
    /\ UNCHANGED <<segmentLimit, index, closeCh, phase, pc, op, res, nextVal,
                   budget, opens, lastDone, enqueued, atOpen, mu, testVars>>

\* case req := <-db.writeCh, then a writeEntry on the handle an earlier
\* failure left closed: Close, or else Write, returns os.ErrClosed.
WriterClosedHandle ==
    /\ wpc = "select"
    /\ writeCh # <<>>
    /\ currentSegment = "closed"
    /\ wreq' = Head(writeCh)
    /\ writeCh' = Tail(writeCh)
    /\ wpc' = "fail"
    /\ UNCHANGED <<files, segmentLimit, currentSegment, currentSegmentId,
                   currentOffset, index, closeCh, phase, pc, op, res, nextVal,
                   budget, opens, faults, lastDone, enqueued, atOpen, mu,
                   testVars>>

\* req.done <- err with the error writeEntry returned.
WriterSignalErr ==
    /\ wpc = "fail"
    /\ pc[wreq.client] = "put_wait"
    /\ pc' = [pc EXCEPT ![wreq.client] = "idle"]
    /\ res' = [res EXCEPT ![wreq.client] = [err |-> "io error", val |-> 0]]
    /\ wreq' = NoReq
    /\ wpc' = "select"
    /\ UNCHANGED <<files, segmentLimit, currentSegment, currentSegmentId,
                   currentOffset, index, writeCh, closeCh, phase, op, nextVal,
                   budget, opens, faults, lastDone, enqueued, atOpen, mu,
                   testVars>>

\* The kinds of failure.
FailKinds == {"close", "create", "write"}

\* A writeEntry whose file operations succeed: its handle is open.
WriterWriteOpen == currentSegment = "open" /\ WriterWrite

NextIO ==
    \/ \E c \in Clients, k \in Keys, vlen \in IOValLens : PutCall(c, k, vlen)
    \/ \E c \in Clients : PutSend(c)
    \/ WriterWriteOpen
    \/ \E kind \in FailKinds, n \in PartialLens : WriterFail(kind, n)
    \/ WriterClosedHandle
    \/ WriterIndex
    \/ WriterSignal
    \/ WriterSignalErr
    \/ \E c \in Clients, k \in Keys : GetLookup(c, k)
    \/ \E c \in Clients : GetFinish(c)

SpecIO == InitIO /\ [][NextIO]_vars

(***************************************************************************)
(* entry_test.go: Encode, Decode and a changed byte between them           *)
(***************************************************************************)
\* No Db is open.
NoDb ==
    /\ files = <<>>
    /\ segmentLimit = 0
    /\ currentSegment = "closed"
    /\ currentSegmentId = 0
    /\ currentOffset = 0
    /\ index = EmptyIndex
    /\ writeCh = <<>>
    /\ closeCh = "open"
    /\ wpc = "exited"
    /\ wreq = NoReq
    /\ phase = "none"
    /\ pc = [c \in Clients |-> "idle"]
    /\ op = [c \in Clients |-> NoOp]
    /\ res = [c \in Clients |-> NoRes]
    /\ nextVal = 1
    /\ budget = 0
    /\ opens = 0
    /\ faults = 0
    /\ lastDone = [k \in Keys |-> NoDone]
    /\ enqueued = {}
    /\ atOpen = {}
    /\ mu = Unlocked

\* The keys and values the tests encode: all strings up to MaxStrLen bytes.
Strings == UNION {[1..n -> ByteVals] : n \in 0..MaxStrLen}

InitCodec ==
    /\ NoDb
    /\ tpc = "input"
    /\ tEntry \in [key : Strings, value : Strings]
    /\ tBuf = <<>>
    /\ tOut = NoOut
    /\ stream = <<>>
    /\ reader = NoReader
    /\ rcalls = 0
    /\ rOut = NoRead

\* encoded := e.Encode()
TestEncode ==
    /\ tpc = "input"
    /\ tBuf' = EncodeBytes(tEntry)
    /\ tpc' = "encoded"
    /\ UNCHANGED <<dbVars, tEntry, tOut, stream, reader, rcalls, rOut>>

\* b with bit j changed.
FlipBit(b, j) == IF (b \div 2^j) % 2 = 1 THEN b - 2^j ELSE b + 2^j

\* Positions (from 1) of the value and of the checksum in an encoded record.
ValueRegion(e) ==
    (HeaderSize + Len(e.key) + 1)..(HeaderSize + Len(e.key) + Len(e.value))

HashRegion(e) ==
    (HeaderSize + Len(e.key) + Len(e.value) + 1)..
        (HeaderSize + Len(e.key) + Len(e.value) + HashSize)

\* encoded[i] ^= 1 << j, for a byte of the value or of the checksum.
TestTamper(i, j) ==
    /\ tpc = "encoded"
    /\ i \in ValueRegion(tEntry) \cup HashRegion(tEntry)
    /\ tBuf' = [tBuf EXCEPT ![i] = FlipBit(@, j)]
    /\ tpc' = "tampered"
    /\ UNCHANGED <<dbVars, tEntry, tOut, stream, reader, rcalls, rOut>>

\* err := decoded.Decode(encoded)
TestDecode ==
    /\ tpc \in {"encoded", "tampered"}
    /\ tOut' = DecodeBytes(tBuf)
    /\ tpc' = IF tpc = "encoded" THEN "decoded" ELSE "decoded_tampered"
    /\ UNCHANGED <<dbVars, tEntry, tBuf, stream, reader, rcalls, rOut>>

NextCodec ==
    \/ TestEncode
    \/ \E i \in 1..Len(tBuf), j \in Bits : TestTamper(i, j)
    \/ TestDecode

SpecCodec == InitCodec /\ [][NextCodec]_vars

(***************************************************************************)
(* entry_test.go: DecodeFromReader called over a stream until it fails     *)
(***************************************************************************)
\* The streams: 1..MaxRecords whole encoded records, the i-th with value i.
Streams ==
    UNION {{[i \in 1..n |-> Encode(ks[i], i, ls[i])] :
                ks \in [1..n -> Keys], ls \in [1..n -> StreamValLens]} :
           n \in 1..MaxRecords}

\* bufio.NewReader(bytes.NewReader(stream)): nothing read, nothing buffered.
InitReader ==
    /\ NoDb
    /\ tpc = "off"
    /\ tEntry = NoEntry
    /\ tBuf = <<>>
    /\ tOut = NoOut
    /\ stream \in Streams
    /\ reader = NoReader
    /\ rcalls = 0
    /\ rOut = NoRead

\* n, err := b.DecodeFromReader(reader), called again after every entry it
\* returns, as recoverSegment does.
ReaderDecode ==
    /\ stream # <<>>
    /\ rOut.err \in {"none", "nil"}
    /\ LET r == DecodeFromReader(stream, reader.lpos, reader.bend)
       IN  /\ rOut' = [n |-> r.n, err |-> r.err, key |-> r.key, val |-> r.val,
                       at |-> reader.lpos]
           /\ reader' = [lpos |-> reader.lpos + r.n, bend |-> r.bend]
           /\ rcalls' = IF r.err = "nil" THEN rcalls + 1 ELSE rcalls
    /\ UNCHANGED <<dbVars, tpc, tEntry, tBuf, tOut, stream>>

NextReader == ReaderDecode

SpecReader == InitReader /\ [][NextReader]_vars

(***************************************************************************)
(* Specifications                                                          *)
(***************************************************************************)
Next ==
    \/ \E c \in Clients, k \in Keys, vlen \in ValLens : PutCall(c, k, vlen)
    \/ \E c \in Clients : PutSend(c)
    \/ WriterWrite
    \/ WriterIndex
    \/ WriterSignal
    \/ WriterExit
    \/ \E c \in Clients, k \in Keys : GetLookup(c, k)
    \/ \E c \in Clients : GetFinish(c)
    \/ \E c \in Clients : CloseCall(c)
    \/ \E c \in Clients : ClosePanic(c)
    \/ \E c \in Clients : CloseReturn(c)
    \/ \E c \in Clients, limit \in Limits : Open(c, limit)

Spec == Init /\ [][Next]_vars

Fault ==
    \/ \E s \in 1..Len(files) : \E i \in 1..Len(files[s]) : Tamper(s, i)
    \/ \E t \in TornLens : CrashMidWrite(t)

InitFault == InitWith(MaxFaults)

NextFault == Next \/ Fault

SpecFault == InitFault /\ [][NextFault]_vars

(***************************************************************************)
(* Properties                                                              *)
(***************************************************************************)
OK(v) == [err |-> "nil", val |-> v]

\* A Put of key k is under way on this Db.
InFlight(k) ==
    \E c \in Clients : /\ pc[c] \in {"put_send", "put_wait"}
                       /\ op[c].key = k

\* Where the record of value v is in the log.
HasRecord(v) ==
    \E s \in 1..Len(files) : \E i \in 1..Len(files[s]) : files[s][i].val = v

RefOfVal(v) ==
    LET s == CHOOSE s \in 1..Len(files) :
                 \E i \in 1..Len(files[s]) : files[s][i].val = v
        i == CHOOSE i \in 1..Len(files[s]) : files[s][i].val = v
    IN  [segmentId |-> s, offset |-> ChunkStart(files[s], i)]

\* Log order of two record positions: by segment id, then by offset.
RefLeq(a, b) ==
    \/ a.segmentId < b.segmentId
    \/ a.segmentId = b.segmentId /\ a.offset <= b.offset

\* The chunk a ref points at (the ref is the start of one).
ChunkOf(ref) ==
    files[ref.segmentId][ChunkIndexAt(files[ref.segmentId], ref.offset)]

PointsAtChunk(ref) ==
    /\ ref.segmentId \in 1..Len(files)
    /\ ChunkIndexAt(files[ref.segmentId], ref.offset) # 0

\* Records of key k in the log.
RecordsOf(k) ==
    {<<s, i>> \in (1..Len(files)) \X (1..MaxPuts + 2) :
        i <= Len(files[s]) /\ files[s][i].key = k}

AllRecordsFitBuffer ==
    \A s \in 1..Len(files) : \A i \in 1..Len(files[s]) :
        ChunkSize(files[s][i]) <= BufSize

\* C1: last-write-wins.  On an open engine, for every key whose last Put of
\* this session has returned and that has no Put under way, Get returns the
\* value of that last Put, whatever rotations happened in between.
C1_LastWriteWins ==
    phase = "open" =>
        \A k \in Keys :
            (DoneHere(k) # 0 /\ ~InFlight(k)) =>
                Get(index, files, k) = OK(DoneHere(k))

\* C1 restricted to logs whose records all fit the reader's buffer.
C1_UpToBufSize == AllRecordsFitBuffer => C1_LastWriteWins

\* C2: reopen durability.  Open on the directory of a closed engine never
\* fails, and right after it (before any Put of the new session) Get returns
\* for every key the value of the last Put that returned before the Close.
C2_ReopenDurability ==
    /\ phase # "failed"
    /\ (phase = "open" /\ opens > 0 /\ enqueued = {}) =>
           \A k \in Keys :
               lastDone[k].val # 0 => Get(index, files, k) = OK(lastDone[k].val)

\* C2 restricted to logs whose records all fit the reader's buffer and that
\* have fewer than ten segments.
C2_SmallLogs == (AllRecordsFitBuffer /\ Len(files) < 10) => C2_ReopenDurability

DistinctKeyPuts ==
    /\ opens = 0
    /\ \A k \in Keys : Cardinality(RecordsOf(k)) <= 1
    /\ \A c \in Clients, d \in Clients :
           (c # d /\ op[c].type = "put" /\ op[d].type = "put")
               => op[c].key # op[d].key

NoPutUnderWay == \A c \in Clients : pc[c] \notin {"put_send", "put_wait"}

\* Every index entry is the start of a whole record of its key, and no two
\* entries are the same place.
IndexSound ==
    /\ \A k \in Keys :
           index[k] # NoRef =>
               /\ PointsAtChunk(index[k])
               /\ ChunkOf(index[k]).key = k
               /\ ChunkOf(index[k]).present = ChunkSize(ChunkOf(index[k]))
    /\ \A k \in Keys, j \in Keys :
           (k # j /\ index[k] # NoRef) => index[k] # index[j]

\* C4: concurrent safety.  When every client has run a Put, the Puts being
\* on distinct keys, concurrent in any way and more than writeCh holds, and
\* all have returned nil, Get returns for each key the
\* value Put; no record overlaps another and no two index entries point to
\* the same place.
C4_ConcurrentPuts ==
    (/\ phase = "open" /\ DistinctKeyPuts /\ NoPutUnderWay
     /\ \A c \in Clients : op[c].type = "put" /\ res[c].err = "nil") =>
        /\ \A k \in Keys :
               DoneHere(k) # 0 => Get(index, files, k) = OK(DoneHere(k))
        /\ IndexSound

\* C4 restricted to logs whose records all fit the reader's buffer.
C4_UpToBufSize == AllRecordsFitBuffer => C4_ConcurrentPuts

\* C5: missing key.  Get of a key for which no Put was enqueued in this
\* session and that has no record in a segment replayed at Open returns
\* ErrNotFound and no value: as Get would run in any state, and as every Get
\* call that returned did.
C5_MissingKey ==
    /\ \A k \in Keys :
           (HasDb /\ k \notin enqueued /\ k \notin atOpen) =>
               Get(index, files, k) = [err |-> "ErrNotFound", val |-> 0]
    /\ \A c \in Clients :
           (/\ op[c].type = "get" /\ pc[c] = "idle"
            /\ op[c].key \notin enqueued /\ op[c].key \notin atOpen) =>
               res[c] = [err |-> "ErrNotFound", val |-> 0]

\* A Get of a key never Put has returned ErrNotFound while the other key is
\* in the index.
C5_Witness ==
    \E c \in Clients, k \in Keys :
        /\ op[c].type = "get" /\ pc[c] = "idle"
        /\ op[c].key \notin enqueued /\ op[c].key \notin atOpen
        /\ res[c].err = "ErrNotFound"
        /\ index[k] # NoRef

\* The record the index references for k is the record of a Put that
\* returned nil, and its value or checksum bytes were altered since.
AlteredAfterPut(k) ==
    /\ HasDb
    /\ index[k] # NoRef
    /\ PointsAtChunk(index[k])
    /\ ChunkOf(index[k]).bad
    /\ ChunkOf(index[k]).val = lastDone[k].val

\* C6: corruption detection at read time.  When the value or checksum bytes
\* of the record the index references for k were altered on disk, Get(k)
\* returns an error that is ErrCorrupted, and no value.
C6_CorruptionDetected ==
    \A k \in Keys : AlteredAfterPut(k) =>
        Get(index, files, k) = [err |-> "ErrCorrupted", val |-> 0]

\* C6 without the identity of the error: no value is returned.
C6_SomeError ==
    \A k \in Keys : AlteredAfterPut(k) => Get(index, files, k).err # "nil"

\* A Close call of client c ends in this step.
CloseEnds(c) ==
    /\ op'[c].type = "close"
    /\ pc'[c] = "idle"
    /\ res'[c] # res[c] \/ phase' # phase

\* C7: a second Close is a no-op.  A Close called on an engine whose first
\* Close has returned returns nil, does not panic and changes no state of
\* the engine or of the directory.
C7_SecondCloseNoop ==
    [][\A c \in Clients :
          (phase = "closed" /\ CloseEnds(c)) =>
              /\ res'[c].err = "nil"
              /\ phase' = "closed"
              /\ UNCHANGED <<files, segmentLimit, currentSegment,
                             currentSegmentId, currentOffset, index, writeCh,
                             closeCh, wpc, wreq>>]_vars

\* Some record of the directory is torn or altered.
Undecodable(fs) ==
    \E s \in 1..Len(fs) : \E i \in 1..Len(fs[s]) :
        fs[s][i].present < ChunkSize(fs[s][i]) \/ fs[s][i].bad

\* C8: recovery is all-or-nothing.  Open on a directory with a segment that
\* holds bytes that are no whole valid record, a torn last record of 1 byte
\* or more included, returns an error and no engine.
C8_TornTailFailsOpen ==
    [][(opens' = opens + 1 /\ Undecodable(files)) => phase' = "failed"]_vars

\* C8 for torn records of which at least the size prefix is on disk.
C8_FromSizePrefixOn ==
    [][(/\ opens' = opens + 1
        /\ \E s \in 1..Len(files) : \E i \in 1..Len(files[s]) :
               \/ files[s][i].bad
               \/ /\ files[s][i].present < ChunkSize(files[s][i])
                  /\ files[s][i].present >= SizePrefix)
       => phase' = "failed"]_vars

\* The step in which the writer applies a Put to the log.
C9_Rule ==
    (wpc = "select" /\ wpc' = "index") =>
        LET ch == Encode(wreq'.key, wreq'.val, wreq'.vlen)
        IN  IF currentOffset + ChunkSize(ch) > segmentLimit
            THEN /\ currentSegmentId' = currentSegmentId + 1
                 /\ currentOffset' = 0
                 /\ files' = Append(files, <<ch>>)
                 /\ Len(files') = currentSegmentId'
            ELSE /\ currentSegmentId' = currentSegmentId
                 /\ currentOffset' = currentOffset
                 /\ files' = [files EXCEPT ![currentSegmentId] = Append(@, ch)]
                 /\ ChunkStart(files'[currentSegmentId],
                               Len(files'[currentSegmentId])) = currentOffset

WriterIdle == wpc \in {"select", "signal", "exited"}

RequestOf(c) ==
    [key |-> op[c].key, val |-> op[c].val, vlen |-> op[c].vlen,
     client |-> c, n |-> 0]

\* Client c's request is in the channel or with the writer.
Pending(c) ==
    \/ \E i \in 1..Len(writeCh) : writeCh[i] = RequestOf(c)
    \/ (wpc \in {"index", "signal"} /\ wreq.client = c /\ wreq.val = op[c].val)

Stranded(c) ==
    /\ pc[c] = "put_wait"
    /\ wpc = "exited"

\* C13: Put completion.  Every Put call eventually returns, for every
\* interleaving with Close; so no run reaches a state in which a Put waits
\* for a writer that has returned.
C13_PutCompletion == \A c \in Clients : ~Stranded(c)

\* The claim as a property of the fair runs: a Put that was called returns.
C13_EventuallyReturns ==
    \A c \in Clients :
        (pc[c] \in {"put_send", "put_wait"}) ~> (pc[c] = "idle")

\* A stranded Put stays stranded in every step (a later Open leaves it
\* blocked on the channels of the Db it was called on).
C13_StrandedForEver ==
    [][\A c \in Clients :
           Stranded(c) => (Stranded(c)' \/ pc'[c] = "blocked")]_vars

\* C14: codec round trip.  Decode of what Encode made of an entry (empty key
\* and empty value included) succeeds and yields the entry; the encoding is
\* 12 + len(key) + len(value) + 20 bytes long and its first four bytes hold
\* that number, little-endian.
C14_RoundTrip ==
    /\ tpc \in {"encoded", "decoded"} =>
           /\ Len(tBuf) = 12 + Len(tEntry.key) + Len(tEntry.value) + 20
           /\ Uint32(SubSeq(tBuf, 1, 4)) = Len(tBuf)
           /\ SubSeq(tBuf, 1, 4) = LE32(Len(tBuf))
    /\ tpc = "decoded" =>
           tOut = [err |-> "nil", key |-> tEntry.key, value |-> tEntry.value]

\* An entry with an empty key and a value of the longest length has made the
\* round trip.
C14_Witness ==
    /\ tpc = "decoded"
    /\ tEntry.key = <<>>
    /\ Len(tEntry.value) = MaxStrLen
    /\ tOut.err = "nil"

\* The round trip of the entry whose key and value are both empty.
C14_WitnessEmpty ==
    /\ tpc = "decoded"
    /\ tEntry = NoEntry
    /\ tOut = [err |-> "nil", key |-> <<>>, value |-> <<>>]

\* C15: tamper detection.  Decode of an encoded record in which one bit of
\* the value or of the checksum was changed returns ErrCorrupted.
C15_TamperIsErrCorrupted ==
    tpc = "decoded_tampered" => tOut.err = "ErrCorrupted"

\* Decode of such a record does return an error, the hash mismatch one.
C15_SomeError ==
    tpc = "decoded_tampered" => tOut.err = "hash mismatch"

\* Records of the stream that DecodeFromReader had been called for before
\* its last call.
ReadBefore == IF rOut.err = "nil" THEN rcalls - 1 ELSE rcalls

\* C16: exact stream consumption.  Over a stream of whole records every
\* DecodeFromReader call returns the next entry and its declared size as the
\* byte count, and consumes exactly those bytes, so that the running offset
\* is each record's start; after the last record it returns io.EOF.
C16_ExactConsumption ==
    rOut.err # "none" =>
        IF ReadBefore < Len(stream)
        THEN /\ rOut.err = "nil"
             /\ rOut.val = stream[ReadBefore + 1].val
             /\ rOut.n = ChunkSize(stream[ReadBefore + 1])
             /\ rOut.at = ChunkStart(stream, ReadBefore + 1)
             /\ reader.lpos = rOut.at + rOut.n
        ELSE rOut.err = "EOF" /\ rOut.n = 0

\* The same for the streams that fit the reader's buffer as a whole.
C16_WithinOneBuffer ==
    FileSize(stream) <= BufSize => C16_ExactConsumption

\* A stream of several records within the buffer has been read to its end.
C16_WitnessWithinBuffer ==
    /\ Len(stream) = MaxRecords
    /\ FileSize(stream) <= BufSize
    /\ rcalls = Len(stream)
    /\ rOut.err = "EOF"

\* Positions of the records of key k on disk.
KeyRefs(k) ==
    {[segmentId |-> s, offset |-> ChunkStart(files[s], i)] :
        <<s, i>> \in {p \in (1..Len(files)) \X (1..ReplayPuts + 1) :
                         /\ p[2] <= Len(files[p[1]])
                         /\ files[p[1]][p[2]].key = k}}

\* Open has returned a Db and nothing was put since.
JustOpened == phase = "open" /\ opens > 0 /\ enqueued = {}

\* C17: recovery order.  After Open, for every key with records on disk the
\* index entry is the record of that key with the greatest (segment id,
\* offset).
C17_RecoveryOrder ==
    JustOpened =>
        \A k \in Keys :
            KeyRefs(k) # {} =>
                /\ index[k] \in KeyRefs(k)
                /\ \A r \in KeyRefs(k) : RefLeq(r, index[k])

\* The same for directories of fewer than ten segments, whose file names
\* sort as their ids do.
C17_UpToNineSegments == Len(files) < 10 => C17_RecoveryOrder

\* Open has replayed nine segments in which a key has several records.
C17_WitnessNine ==
    /\ JustOpened
    /\ Len(files) = 9
    /\ \E k \in Keys : Cardinality(KeyRefs(k)) > 1

\* The values of the records of the log, in log order.
RECURSIVE LogVals(_)
LogVals(fs) ==
    IF fs = <<>> THEN <<>>
    ELSE LogVals(SubSeq(fs, 1, Len(fs) - 1))
             \o [i \in 1..Len(fs[Len(fs)]) |-> fs[Len(fs)][i].val]

\* The values of the requests in writeCh, oldest first.
QueuedVals == [i \in 1..Len(writeCh) |-> writeCh[i].val]

\* The records of the log followed by the requests still queued.
ApplyOrder == LogVals(files) \o QueuedVals

C19_Safety ==
    /\ [](currentSegment = "closed" /\ phase # "none" => wpc = "exited")
    /\ [][(phase = "closed" /\ opens' = opens) =>
              /\ files' = files
              /\ index' = index
              /\ currentSegmentId' = currentSegmentId
              /\ currentOffset' = currentOffset]_vars
    /\ [][(files' # files /\ opens' = opens) =>
              /\ currentSegment = "open"
              /\ phase = "open"
              /\ wpc = "select"]_vars

\* C19: stop ordering.  A Close call returns, also while Puts arrive; it
\* closes the current segment only after the writer has exited; after it
\* has returned nothing is appended, no segment is created and the index
\* stays as it is; the writer never writes to a handle Close has closed.
C19_StopOrdering ==
    /\ \A c \in Clients :
           (pc[c] = "close_wait") ~> (pc[c] = "idle" /\ phase = "closed")
    /\ C19_Safety

\* Close has returned while a Put that arrived waits with its request in
\* the channel, after another Put was applied.
C19_Witness ==
    /\ phase = "closed"
    /\ currentSegment = "closed"
    /\ writeCh # <<>>
    /\ \E c \in Clients : pc[c] = "put_wait"
    /\ LogVals(files) # <<>>

\* Client c's Get waits in RLock.
GetBlocked(c) == pc[c] = "get_rlock" /\ (mu.w \/ mu.wait)

\* A step that does file I/O: the writer's rotation and Write, the file part
\* of a Get, Close's close of the segment.
WriterIO == files' # files \/ currentSegmentId' # currentSegmentId

GetIO(c) == pc[c] = "get_read" /\ pc'[c] # "get_read"

CloseIO == currentSegment' # currentSegment

\* C20: lock discipline.  db.mu is held exclusively only by the writer
\* between its Lock and Unlock around the index update, and shared only by a
\* Get around its index lookup; the index changes only under the exclusive
\* lock and is looked up only under the shared one; every step of file I/O
\* is taken by a thread that neither holds the lock nor has asked for it;
\* hence a Get waits in RLock only while the writer is between Lock and
\* Unlock, where it does no file I/O.
C20_LockDiscipline ==
    /\ [](mu.w => (wpc \in {"locked", "updated"} /\ mu.r = {}))
    /\ [](mu.wait <=> wpc = "lock_wait")
    /\ [](\A c \in Clients :
              c \in mu.r <=> pc[c] \in {"get_rlocked", "get_looked"})
    /\ [](\A c \in Clients :
              GetBlocked(c) => wpc \in {"lock_wait", "locked", "updated"})
    /\ [][/\ index' # index => (mu.w /\ mu'.w)
          /\ WriterIO => (~mu.w /\ ~mu.wait /\ wpc = "select")
          /\ CloseIO => (~mu.w /\ ~mu.wait /\ wpc = "exited")
          /\ \A c \in Clients :
                 /\ GetIO(c) => c \notin mu.r
                 /\ (CloseIO /\ pc[c] = "close_wait") => c \notin mu.r
                 /\ (op'[c].ref # op[c].ref /\ op'[c].ref # NoRef) =>
                        (c \in mu.r /\ c \in mu'.r)]_vars

\* A Get holds the shared lock for its lookup of a key that has an entry
\* while the writer, with the record of a later Put written, waits in Lock
\* and the other caller's Put waits for the writer.
C20_Witness ==
    /\ wpc = "lock_wait"
    /\ mu.wait
    /\ \E c \in Clients : /\ pc[c] = "get_looked"
                          /\ c \in mu.r
                          /\ op[c].ref # NoRef
    /\ \E c \in Clients : pc[c] = "put_wait"

\* Every index entry references an existing segment file in which a whole
\* record of its key starts at the entry's offset.
IndexValid ==
    \A k \in Keys :
        index[k] # NoRef =>
            /\ PointsAtChunk(index[k])
            /\ ChunkOf(index[k]).key = k
            /\ ChunkOf(index[k]).present = ChunkSize(ChunkOf(index[k]))

\* C21: index validity.  In every state of an open engine, also between the
\* writer's Write and its index update and around a rotation, every index
\* entry references an existing segment file in which a complete record with
\* the entry's key starts at exactly the entry's offset.
C21_IndexValidity == phase = "open" => IndexValid

\* The same while no failed Write has left a part of a record in a segment.
C21_NoPartialRecord ==
    (\A s \in 1..Len(files) : \A i \in 1..Len(files[s]) :
         files[s][i].present = ChunkSize(files[s][i]))
        => C21_IndexValidity

\* The writer's step from its select to the error return of writeEntry.
FailedApply == wpc = "select" /\ wpc' = "fail"

\* C22: a failed Put leaves the engine unchanged.  When writeEntry returns
\* an error, the index, the current segment id, the current offset and the
\* handle are as before the Put, and the offset is still the end of the
\* current segment, where the next record will land; the caller gets the
\* error.
C22_FailedPutNoEffect ==
    [][/\ FailedApply =>
              /\ index' = index
              /\ currentSegmentId' = currentSegmentId
              /\ currentOffset' = currentOffset
              /\ currentSegment' = currentSegment
              /\ currentOffset' = FileSize(files'[currentSegmentId'])
       /\ (wpc = "fail" /\ wpc' = "select") =>
              /\ pc'[wreq.client] = "idle"
              /\ res'[wreq.client].err = "io error"]_vars

\* The part of it that holds: the caller gets the error and the index is as
\* before; a Write that fails with nothing written and without a rotation
\* before it leaves all of the engine as it was.
C22_ErrorReturned ==
    [][/\ FailedApply =>
              /\ index' = index
              /\ (files' = files /\ currentSegmentId' = currentSegmentId
                    /\ currentSegment' = currentSegment)
                     => currentOffset' = currentOffset
       /\ (wpc = "fail" /\ wpc' = "select") =>
              /\ pc'[wreq.client] = "idle"
              /\ res'[wreq.client].err = "io error"]_vars

\* A Put failed in its rotation, and a later Put failed on the handle that
\* was left closed.
C22_LaterPutsFail ==
    /\ currentSegment = "closed"
    /\ faults = 0
    /\ \E c \in Clients : res[c].err = "io error" /\ op[c].val > 2

\* Client c's next step loads db.currentOffset while the writer's next step
\* stores to it, and c does not hold db.mu: the two accesses are concurrent
\* and not ordered by any lock or channel.
OffsetRace(c) ==
    /\ pc[c] = "size_read"
    /\ WriterStoresOffset
    /\ c \notin mu.r

\* C23: no unsynchronised access to writer state.  No caller reads
\* db.currentOffset while the writer is writing it unless both hold db.mu;
\* Size called while a Put is in flight is no data race.
C23_NoDataRace == \A c \in Clients : ~OffsetRace(c)

\* The same for the index, the field Get reads: a Get's lookup and the
\* writer's index update are never concurrent.
C23_IndexNoRace ==
    \A c \in Clients : pc[c] = "get_rlocked" => wpc # "locked"

====
